---- MODULE Spec2Model ----
(***************************************************************************)
(* A model of SphinxReport/DataTree.py: the nested ordered dictionary      *)
(* ("data tree"), its path operations (getLeaf, setLeaf, removeLeaf), the  *)
(* level analysis (getPaths), the level transposition (swop) and the       *)
(* structural reduction (removeEmptyLeaves, removeLevel, prune), both as   *)
(* the module-level functions and as the methods of class DataTree.        *)
(*                                                                         *)
(* A node of a tree is a record [kind, val, items]:                        *)
(*   kind = "dict": an OrderedDict; items is the sequence of its           *)
(*                  [key, node] entries in insertion order;                *)
(*   kind = "leaf": a payload that is not a dictionary; val names it.      *)
(* Python exceptions are results [exc |-> name, val |-> ...]; exc = ""     *)
(* is a normal return.                                                     *)
(***************************************************************************)
EXTENDS Integers, Sequences, FiniteSets, TLC

\* ------------------------------------------------------------------ bounds
\* Largest number of dictionary entries (over all levels) of a tree on which
\* the path operations, getPaths and removeEmptyLeaves are run.
MaxNodes == 3
\* The same for the trees on which swop and prune are run.
LevelNodes == 4
\* The same for the trees on which tree2table is run.
TableNodes == 4

\* String keys used to build trees.
Keys == {"a", "b"}
\* The integer key 0, used in lookups only (it is never a key of a dictionary).
IntKey == "0"
QueryKeys == Keys \cup {IntKey}

\* Payloads: Python None, the integer 1, the empty string, the empty list,
\* the list [7], a DataFrame with two rows and an empty DataFrame.  No
\* DataFrame has a column named by one of Keys or by 0.  The module is
\* Python 2 code (dict.iteritems, line 379), where a DataFrame has keys()
\* and iteritems() but no items(); its truth value is a ValueError.
Payloads == {"None", "1", "''", "[]", "[7]", "DF", "DF0"}

Leaf(p) == [kind |-> "leaf", val |-> p, items |-> << >>]
Dict(its) == [kind |-> "dict", val |-> "", items |-> its]
None == Leaf("None")
EmptyDict == Dict(<< >>)
IsDict(n) == n.kind = "dict"
IsDataFrame(n) == n.kind = "leaf" /\ n.val \in {"DF", "DF0"}
IsStr(n) == n.kind = "leaf" /\ n.val = "''"
IsList(n) == n.kind = "leaf" /\ n.val \in {"[]", "[7]", "[7, 8]"}

\* The Python values True and False.
PyBool(b) == IF b THEN Leaf("True") ELSE Leaf("False")

Ok(v) == [exc |-> "", val |-> v]
Raise(e) == [exc |-> e, val |-> None]

\* ------------------------------------------------- OrderedDict primitives
KeysOf(d) == [i \in 1..Len(d.items) |-> d.items[i].key]
ValuesOf(d) == [i \in 1..Len(d.items) |-> d.items[i].node]
HasKey(d, k) == \E i \in 1..Len(d.items) : d.items[i].key = k
IndexOf(d, k) == CHOOSE i \in 1..Len(d.items) : d.items[i].key = k
Lookup(d, k) == d.items[IndexOf(d, k)].node
\* d[k] = v on an OrderedDict: an existing key keeps its place, a new key is
\* appended.
Put(d, k, v) ==
  IF HasKey(d, k)
  THEN Dict([d.items EXCEPT ![IndexOf(d, k)] = [key |-> k, node |-> v]])
  ELSE Dict(Append(d.items, [key |-> k, node |-> v]))
\* del d[k] on an OrderedDict that holds k.
Del(d, k) ==
  Dict(SelectSeq(d.items, LAMBDA e : e.key # k))

\* work[x]: the subscript of any node.
Subscript(w, x) ==
  IF IsDict(w) THEN (IF HasKey(w, x) THEN Ok(Lookup(w, x)) ELSE Raise("KeyError"))
  ELSE IF IsDataFrame(w) THEN Raise("KeyError")
  ELSE IF IsStr(w) \/ IsList(w)
       THEN IF x # IntKey THEN Raise("TypeError")
            ELSE IF w.val \in {"[7]", "[7, 8]"} THEN Ok(Leaf("7"))
            ELSE Raise("IndexError")
  ELSE Raise("TypeError")

\* work[x] = data.  Assignment into a DataFrame is pandas' column assignment,
\* which is outside this model: the actions never write through a DataFrame.
SetItem(w, x, data) ==
  IF IsDict(w) THEN Ok(Put(w, x, data))
  ELSE IF IsDataFrame(w) THEN Raise("unmodelled")
  ELSE Raise("TypeError")

\* del work[x].
DelItem(w, x) ==
  IF IsDict(w) THEN (IF HasKey(w, x) THEN Ok(Del(w, x)) ELSE Raise("KeyError"))
  ELSE IF IsDataFrame(w) THEN Raise("unmodelled")
  ELSE Raise("TypeError")

\* ---------------------------------------------------------------- getLeaf
RECURSIVE getLeaf(_, _)
getLeaf(work, path) ==
  IF path = << >> THEN Ok(work)
  ELSE LET r == Subscript(work, Head(path)) IN
       IF r.exc = "" THEN getLeaf(r.val, Tail(path))
       ELSE IF r.exc \in {"KeyError", "TypeError"} THEN Ok(None)
       ELSE r

RECURSIVE DataTree_getLeaf(_, _)
DataTree_getLeaf(work, path) ==
  IF path = << >> THEN Ok(work)
  ELSE LET r == Subscript(work, Head(path)) IN
       IF r.exc = "" THEN DataTree_getLeaf(r.val, Tail(path))
       ELSE IF r.exc = "KeyError" THEN Ok(None)
       ELSE r

\* ---------------------------------------------------------------- setLeaf
\* The loop over path[:-1] and the final assignment, as the new value of the
\* container `w` the loop starts from.
RECURSIVE SetAt(_, _, _)
\* SetAt with the container made for a missing key never stored in its
\* parent (the assignment work[x] = odict() left out).
SetAt_Unattached(w, path, data) ==
  IF Len(path) = 1 THEN SetItem(w, path[1], data)
  ELSE LET r == Subscript(w, Head(path)) IN
       IF r.exc = ""
       THEN LET s == SetAt(r.val, Tail(path), data) IN
            IF s.exc = "" THEN SetItem(w, Head(path), s.val) ELSE s
       ELSE IF r.exc = "KeyError" THEN Ok(w)
       ELSE r

SetAt(w, path, data) ==
  IF Len(path) = 1 THEN SetItem(w, path[1], data)
  ELSE LET r == Subscript(w, Head(path)) IN
       IF r.exc = ""
       THEN LET s == SetAt(r.val, Tail(path), data) IN
            IF s.exc = "" THEN SetItem(w, Head(path), s.val) ELSE s
       ELSE IF r.exc = "KeyError"
       THEN LET c == SetItem(w, Head(path), EmptyDict) IN
            IF c.exc # "" THEN c
            ELSE LET s == SetAt(EmptyDict, Tail(path), data) IN
                 IF s.exc = "" THEN SetItem(w, Head(path), s.val) ELSE s
       ELSE r

\* setLeaf(work, path, data): path[-1] of the empty path is an IndexError.
setLeaf(work, path, data) ==
  IF Len(path) = 0 THEN Raise("IndexError") ELSE SetAt(work, path, data)

\* DataTree.setLeaf: the empty path replaces the whole data.
DataTree_setLeaf(work, path, data) ==
  IF Len(path) = 0 THEN Ok(data) ELSE SetAt(work, path, data)

\* ------------------------------------------------------------- removeLeaf
\* The loop over path[:-1] and the final del, as the new value of `w`.
RECURSIVE RemoveAt(_, _)
RemoveAt(w, path) ==
  IF Len(path) = 1 THEN DelItem(w, path[1])
  ELSE LET r == Subscript(w, Head(path)) IN
       IF r.exc # "" THEN r
       ELSE LET s == RemoveAt(r.val, Tail(path)) IN
            IF s.exc = "" THEN SetItem(w, Head(path), s.val) ELSE s

\* removeLeaf(work, path): the new tree; the empty path clears the root.
removeLeaf(work, path) ==
  IF Len(path) = 0 THEN Ok(EmptyDict) ELSE RemoveAt(work, path)

\* DataTree.removeLeaf: a missing intermediate key sets work = None and
\* leaves the loop, and the del is then applied to None.
RECURSIVE DataTree_RemoveAt(_, _)
DataTree_RemoveAt(w, path) ==
  IF Len(path) = 1 THEN DelItem(w, path[1])
  ELSE LET r == Subscript(w, Head(path)) IN
       IF r.exc = ""
       THEN LET s == DataTree_RemoveAt(r.val, Tail(path)) IN
            IF s.exc = "" THEN SetItem(w, Head(path), s.val) ELSE s
       ELSE IF r.exc = "KeyError" THEN DelItem(None, path[Len(path)])
       ELSE r

\* The class object odict, which DataTree.removeLeaf binds to _data for the
\* empty path.
OdictClass == Leaf("odict")

DataTree_removeLeaf(work, path) ==
  IF Len(path) = 0 THEN Ok(OdictClass) ELSE DataTree_RemoveAt(work, path)

\* ---------------------------------------------------------------- getPaths
\* unique(iterables): the elements in first-seen order.
unique(l) ==
  LET F[i \in 0..Len(l)] ==
        IF i = 0 THEN << >>
        ELSE IF \E j \in 1..(i - 1) : l[j] = l[i] THEN F[i - 1]
        ELSE Append(F[i - 1], l[i])
  IN F[Len(l)]

\* hasattr(x, "keys")
HasKeysAttr(x) == IsDict(x) \/ IsDataFrame(x)

\* The for loop of getPaths over the nodes of one level that have keys, from
\* the i-th on: a DataFrame ends the loop (break).
RECURSIVE ScanLevel(_, _)
ScanLevel(xs, i) ==
  IF i > Len(xs) THEN [l |-> << >>, next_level |-> << >>]
  ELSE IF IsDataFrame(xs[i]) THEN [l |-> << >>, next_level |-> << >>]
  ELSE LET rest == ScanLevel(xs, i + 1) IN
       [l |-> KeysOf(xs[i]) \o rest.l,
        next_level |-> ValuesOf(xs[i]) \o rest.next_level]

\* The while loop of getPaths from this_level on.
RECURSIVE PathsFrom(_)
PathsFrom(this_level) ==
  LET s == ScanLevel(SelectSeq(this_level, HasKeysAttr), 1) IN
  IF s.l = << >> THEN << >>
  ELSE << unique(s.l) >> \o PathsFrom(s.next_level)

getPaths(work) == PathsFrom(<< work >>)

\* DataTree.getPaths has no DataFrame test: x.values() of a DataFrame calls
\* an array, a TypeError.
RECURSIVE DataTree_PathsFrom(_)
DataTree_PathsFrom(this_level) ==
  LET xs == SelectSeq(this_level, HasKeysAttr) IN
  IF \E i \in 1..Len(xs) : IsDataFrame(xs[i]) THEN Raise("TypeError")
  ELSE LET s == ScanLevel(xs, 1) IN
       IF s.l = << >> THEN Ok(<< >>)
       ELSE LET r == DataTree_PathsFrom(s.next_level) IN
            IF r.exc # "" THEN r ELSE Ok(<< unique(s.l) >> \o r.val)

DataTree_getPaths(work) == DataTree_PathsFrom(<< work >>)

\* ------------------------------------------------------- removeEmptyLeaves
\* `work is not None or work != ""` (line 550).
NotNoneOrNotEmptyString(work) == work # None \/ work # Leaf("''")

\* removeEmptyLeaves(work): [keep |-> the value returned, node |-> work
\* after the call].  items() of a payload is an AttributeError, which leads
\* to the tests after the try block.
RECURSIVE removeEmptyLeaves(_)
RECURSIVE KeepItems(_, _)
KeepItems(its, i) ==
  IF i > Len(its) THEN << >>
  ELSE LET c == removeEmptyLeaves(its[i].node) IN
       (IF c.keep THEN << [key |-> its[i].key, node |-> c.node] >> ELSE << >>)
       \o KeepItems(its, i + 1)
removeEmptyLeaves(work) ==
  IF IsDict(work)
  THEN LET kept == KeepItems(work.items, 1) IN
       [keep |-> Len(kept) # 0, node |-> Dict(kept)]
  ELSE IF IsDataFrame(work) THEN [keep |-> work.val = "DF", node |-> work]
  ELSE [keep |-> NotNoneOrNotEmptyString(work), node |-> work]

\* -------------------------------------------------------------------- swop
\* The concatenation of a sequence of sequences.
RECURSIVE Flatten(_)
Flatten(ss) == IF ss = << >> THEN << >> ELSE Head(ss) \o Flatten(Tail(ss))

\* list(itertools.product(*ls)): the tuples in lexicographic order, the last
\* position changing fastest; one empty tuple for no list at all.
RECURSIVE Product(_)
Product(ls) ==
  IF ls = << >> THEN << << >> >>
  ELSE LET rest == Product(Tail(ls)) IN
       Flatten([i \in 1..Len(Head(ls)) |->
                 [j \in 1..Len(rest) |-> << Head(ls)[i] >> \o rest[j]]])

\* `data == None`: the comparison of a DataFrame is a DataFrame, whose truth
\* value is a ValueError.
EqualsNone(data) ==
  IF IsDataFrame(data) THEN Raise("ValueError") ELSE Ok(data = None)

Min(x, y) == IF x <= y THEN x ELSE y
Max(x, y) == IF x <= y THEN y ELSE x

\* The path of a branch before and after the two keys are exchanged.
OldPath(prefix, p1, infix, p2, suffix) == prefix \o << p1 >> \o infix \o << p2 >> \o suffix
NewPath(prefix, p1, infix, p2, suffix) == prefix \o << p2 >> \o infix \o << p1 >> \o suffix

\* The loop over the suffixes (lines 496-504), from the i-th suffix on.
RECURSIVE SwopSuffixes(_, _, _, _, _)
SwopSuffixes(work, job, suffixes, i, newtree) ==
  IF i > Len(suffixes) THEN Ok(newtree)
  ELSE LET oldpath == OldPath(job[3], job[1], job[4], job[2], suffixes[i])
           newpath == NewPath(job[3], job[1], job[4], job[2], suffixes[i])
           data == getLeaf(work, oldpath)
           isnone == EqualsNone(data.val)
       IN IF data.exc # "" THEN data
          ELSE IF isnone.exc # "" THEN isnone
          ELSE IF isnone.val THEN SwopSuffixes(work, job, suffixes, i + 1, newtree)
          ELSE LET r == setLeaf(newtree, newpath, data.val) IN
               IF r.exc # "" THEN r
               ELSE SwopSuffixes(work, job, suffixes, i + 1, r.val)

\* The suffixes of one (p1, p2, prefix, infix): the keys found right below it
\* (lines 489-494); the empty suffix stands for (None,), which _f removes.
LocalSuffixes(w) ==
  LET subpaths == getPaths(w) IN
  IF subpaths # << >> THEN [i \in 1..Len(subpaths[1]) |-> << subpaths[1][i] >>]
  ELSE << << >> >>

\* The loops over (p1, p2) and (prefix, infix) (lines 485-504), from the i-th
\* job << p1, p2, prefix, infix >> on.
RECURSIVE SwopLoop(_, _, _, _)
SwopLoop(work, jobs, i, newtree) ==
  IF i > Len(jobs) THEN Ok(newtree)
  ELSE LET job == jobs[i]
           w == getLeaf(work, OldPath(job[3], job[1], job[4], job[2], << >>))
       IN IF w.exc # "" THEN w
          ELSE LET r == SwopSuffixes(work, job, LocalSuffixes(w.val), 1, newtree) IN
               IF r.exc # "" THEN r ELSE SwopLoop(work, jobs, i + 1, r.val)

\* swop(work, level1, level2): the value returned (None for equal levels).
\* The rewriting of swop once the levels are ordered, lo < hi: the tree
\* made from the empty one by the loop over (p1, p2) and (prefix, infix).
SwopRewrite(work, paths, lo, hi) ==
  LET prefixes == Product(SubSeq(paths, 1, lo))
      infixes == Product(SubSeq(paths, lo + 2, hi))
      jobs == Product(<< paths[lo + 1], paths[hi + 1], prefixes, infixes >>)
  IN SwopLoop(work, jobs, 1, EmptyDict)

\* swop with the test for equal levels made before the range tests.
swop_EqualLevelsFirst(work, level1, level2) ==
  LET paths == getPaths(work)
      nlevels == Len(paths)
  IN IF level1 = level2 THEN Ok(None)
     ELSE IF nlevels <= level1 THEN Raise("IndexError")
     ELSE IF nlevels <= level2 THEN Raise("IndexError")
     ELSE SwopRewrite(work, paths, Min(level1, level2), Max(level1, level2))

swop(work, level1, level2) ==
  LET paths == getPaths(work)
      nlevels == Len(paths)
  IN IF nlevels <= level1 THEN Raise("IndexError")
     ELSE IF nlevels <= level2 THEN Raise("IndexError")
     ELSE IF level1 = level2 THEN Ok(None)
     ELSE SwopRewrite(work, paths, Min(level1, level2), Max(level1, level2))

\* DataTree.swop: the loop over (p1, p2) and (prefix, infix, suffix) (lines
\* 145-153), from the i-th job << p1, p2, prefix, infix, suffix >> on.
RECURSIVE DataTree_SwopLoop(_, _, _, _)
DataTree_SwopLoop(work, jobs, i, newtree) ==
  IF i > Len(jobs) THEN Ok(newtree)
  ELSE LET job == jobs[i]
           data == DataTree_getLeaf(work, OldPath(job[3], job[1], job[4], job[2], job[5]))
           isnone == EqualsNone(data.val)
       IN IF data.exc # "" THEN data
          ELSE IF isnone.exc # "" THEN isnone
          ELSE IF isnone.val THEN DataTree_SwopLoop(work, jobs, i + 1, newtree)
          ELSE LET r == DataTree_setLeaf(newtree,
                          NewPath(job[3], job[1], job[4], job[2], job[5]), data.val) IN
               IF r.exc # "" THEN r
               ELSE DataTree_SwopLoop(work, jobs, i + 1, r.val)

\* DataTree.swop(level1, level2): [exc, val |-> the new _data]; equal levels
\* leave _data as it is.
DataTree_swop(work, level1, level2) ==
  LET got == DataTree_getPaths(work)
      paths == got.val
      nlevels == Len(paths)
      lo == Min(level1, level2)
      hi == Max(level1, level2)
  IN IF got.exc # "" THEN got
     ELSE IF nlevels <= level1 THEN Raise("IndexError")
     ELSE IF nlevels <= level2 THEN Raise("IndexError")
     ELSE IF level1 = level2 THEN Ok(work)
     ELSE LET prefixes == Product(SubSeq(paths, 1, lo))
              infixes == Product(SubSeq(paths, lo + 2, hi))
              suffixes == Product(SubSeq(paths, hi + 2, nlevels))
              jobs == Product(<< paths[lo + 1], paths[hi + 1],
                                 prefixes, infixes, suffixes >>)
          IN DataTree_SwopLoop(work, jobs, 1, EmptyDict)

\* ------------------------------------------------------------------- prune
\* getPrefixes(work, level): paths[:level] may be shorter than level.
getPrefixes(work, level) ==
  LET paths == getPaths(work) IN Product(SubSeq(paths, 1, Min(level, Len(paths))))

\* len(x) of a payload or a dictionary.
PyLen(x) ==
  IF IsDict(x) THEN Ok(Len(x.items))
  ELSE IF x.val = "DF" THEN Ok(2)
  ELSE IF x.val = "[7]" THEN Ok(1)
  ELSE IF x.val = "[7, 8]" THEN Ok(2)
  ELSE IF x.val \in {"DF0", "[]", "''"} THEN Ok(0)
  ELSE Raise("TypeError")

\* `label in x` for an x that has a length: a key of a dictionary, a column
\* of a DataFrame, an element of a list, a substring of a string.
PyIn(label, x) == IsDict(x) /\ HasKey(x, label)

\* The node at `path` of `work` replaced by n, as an assignment inside the
\* object at `path` shows from the root.
InPlace(work, path, n) == IF path = << >> THEN n ELSE SetAt(work, path, n).val

\* The items of d assigned into leaf one by one (lines 438-439).
Splice(leaf, d) ==
  LET G[j \in 0..Len(d.items)] ==
        IF j = 0 THEN leaf
        ELSE Put(G[j - 1], d.items[j].key, d.items[j].node)
  IN G[Len(d.items)]

\* The loop over the keys of one leaf in removeLevel (lines 433-442), from
\* the i-th key on.  `leaf` is the dictionary found at `path`; it is part of
\* `work` (attached) until setLeaf binds a payload at `path` in its place.
\* The result is [exc, val |-> work after the loop].
RECURSIVE RemoveLevelKeys(_, _, _, _, _, _)
RemoveLevelKeys(work, path, leaf, attached, keys, i) ==
  IF i > Len(keys) THEN Ok(work)
  ELSE LET d == Lookup(leaf, keys[i])
           cut == Del(leaf, keys[i])
       IN IF IsDict(d)
          THEN LET spliced == Splice(cut, d) IN
               RemoveLevelKeys(IF attached THEN InPlace(work, path, spliced) ELSE work,
                               path, spliced, attached, keys, i + 1)
          ELSE LET work1 == IF attached THEN InPlace(work, path, cut) ELSE work
                   r == setLeaf(work1, path, d)
               IN IF r.exc # "" THEN [exc |-> r.exc, val |-> work1]
                  ELSE RemoveLevelKeys(r.val, path, cut, FALSE, keys, i + 1)

\* The loop over the prefixes in removeLevel (lines 426-442), from the i-th
\* prefix on: [exc, val |-> work after the loop].
RECURSIVE RemoveLevelLoop(_, _, _)
RemoveLevelLoop(work, prefixes, i) ==
  IF i > Len(prefixes) THEN Ok(work)
  ELSE LET leaf == getLeaf(work, prefixes[i])
           isnone == EqualsNone(leaf.val)
       IN IF leaf.exc # "" THEN [exc |-> leaf.exc, val |-> work]
          ELSE IF isnone.exc # "" THEN [exc |-> isnone.exc, val |-> work]
          ELSE IF isnone.val THEN RemoveLevelLoop(work, prefixes, i + 1)
          ELSE IF ~IsDict(leaf.val) THEN [exc |-> "AttributeError", val |-> work]
          ELSE LET r == RemoveLevelKeys(work, prefixes[i], leaf.val, TRUE,
                                        KeysOf(leaf.val), 1) IN
               IF r.exc # "" THEN r ELSE RemoveLevelLoop(r.val, prefixes, i + 1)

\* removeLevel(work, level): [exc, val |-> work after the call].
removeLevel(work, level) == RemoveLevelLoop(work, getPrefixes(work, level), 1)

\* The loop over the prefixes in prune (lines 776-781), from the i-th on:
\* the value of `keep` after it.
RECURSIVE KeepLevel(_, _, _, _)
KeepLevel(data, label, prefixes, i) ==
  IF i > Len(prefixes) THEN Ok(FALSE)
  ELSE LET leaves == getLeaf(data, prefixes[i]).val
           n == PyLen(leaves)
       IN IF leaves = None THEN KeepLevel(data, label, prefixes, i + 1)
          ELSE IF n.exc # "" THEN n
          ELSE IF n.val > 1 \/ ~PyIn(label, leaves) THEN Ok(TRUE)
          ELSE KeepLevel(data, label, prefixes, i + 1)

\* The loop over the levels in prune (lines 768-782), from `level` on:
\* levels_to_prune, as << level, label >> pairs with levels counted from 0.
RECURSIVE LevelsToPrune(_, _, _, _)
\* LevelsToPrune without the test of the ignore set (`label in ignore` left
\* out of line 771).
LevelsToPrune_IgnoreNothing(data, data_paths, ignore, level) ==
  IF level >= Len(data_paths) THEN Ok(<< >>)
  ELSE LET rest == LevelsToPrune(data, data_paths, ignore, level + 1)
           label == data_paths[level + 1][1]
       IN IF Len(data_paths[level + 1]) # 1 THEN rest
          ELSE LET keep == KeepLevel(data, label, getPrefixes(data, level), 1) IN
               IF keep.exc # "" THEN keep
               ELSE IF rest.exc # "" THEN rest
               ELSE IF keep.val THEN rest
               ELSE Ok(<< << level, label >> >> \o rest.val)

LevelsToPrune(data, data_paths, ignore, level) ==
  IF level >= Len(data_paths) THEN Ok(<< >>)
  ELSE LET rest == LevelsToPrune(data, data_paths, ignore, level + 1)
           label == data_paths[level + 1][1]
       IN IF Len(data_paths[level + 1]) # 1 \/ label \in ignore THEN rest
          ELSE LET keep == KeepLevel(data, label, getPrefixes(data, level), 1) IN
               IF keep.exc # "" THEN keep
               ELSE IF rest.exc # "" THEN rest
               ELSE IF keep.val THEN rest
               ELSE Ok(<< << level, label >> >> \o rest.val)

Reverse(s) == [i \in 1..Len(s) |-> s[Len(s) + 1 - i]]

\* The loop that removes the levels (lines 787-792), from the i-th pair on.
RECURSIVE PruneLevels(_, _, _, _, _)
\* PruneLevels without the test that keeps a sole top level (line 788 left
\* out).
PruneLevels_TopLevelRemoved(data, levels_to_prune, i, nlevels, pruned) ==
  IF i > Len(levels_to_prune) THEN [exc |-> "", val |-> pruned, tree |-> data]
  ELSE LET r == removeLevel(data, levels_to_prune[i][1]) IN
       IF r.exc # "" THEN [exc |-> r.exc, val |-> << >>, tree |-> r.val]
       ELSE PruneLevels(r.val, levels_to_prune, i + 1, nlevels - 1,
                        Append(pruned, levels_to_prune[i]))

\* PruneLevels with the pair appended to `pruned` before the test that keeps
\* a sole top level (lines 788 and 789 exchanged).
PruneLevels_SkippedRecorded(data, levels_to_prune, i, nlevels, pruned) ==
  IF i > Len(levels_to_prune) THEN [exc |-> "", val |-> pruned, tree |-> data]
  ELSE IF levels_to_prune[i][1] = 0 /\ nlevels = 1
       THEN PruneLevels(data, levels_to_prune, i + 1, nlevels,
                        Append(pruned, levels_to_prune[i]))
  ELSE LET r == removeLevel(data, levels_to_prune[i][1]) IN
       IF r.exc # "" THEN [exc |-> r.exc, val |-> << >>, tree |-> r.val]
       ELSE PruneLevels(r.val, levels_to_prune, i + 1, nlevels - 1,
                        Append(pruned, levels_to_prune[i]))

PruneLevels(data, levels_to_prune, i, nlevels, pruned) ==
  IF i > Len(levels_to_prune) THEN [exc |-> "", val |-> pruned, tree |-> data]
  ELSE IF levels_to_prune[i][1] = 0 /\ nlevels = 1
       THEN PruneLevels(data, levels_to_prune, i + 1, nlevels, pruned)
  ELSE LET r == removeLevel(data, levels_to_prune[i][1]) IN
       IF r.exc # "" THEN [exc |-> r.exc, val |-> << >>, tree |-> r.val]
       ELSE PruneLevels(r.val, levels_to_prune, i + 1, nlevels - 1,
                        Append(pruned, levels_to_prune[i]))

\* prune with the levels removed in ascending order (levels_to_prune not
\* reversed).
prune_Ascending(data, ignore) ==
  LET cleaned == removeEmptyLeaves(data).node
      data_paths == getPaths(cleaned)
      found == LevelsToPrune(cleaned, data_paths, ignore, 0)
  IN IF found.exc # "" THEN [exc |-> found.exc, val |-> << >>, tree |-> cleaned]
     ELSE PruneLevels(cleaned, found.val, 1, Len(data_paths), << >>)

\* prune(data, ignore): [exc, val |-> the list returned, tree |-> data after
\* the call].
prune(data, ignore) ==
  LET cleaned == removeEmptyLeaves(data).node
      data_paths == getPaths(cleaned)
      found == LevelsToPrune(cleaned, data_paths, ignore, 0)
  IN IF found.exc # "" THEN [exc |-> found.exc, val |-> << >>, tree |-> cleaned]
     ELSE PruneLevels(cleaned, Reverse(found.val), 1, Len(data_paths), << >>)

\* ---------------------------------------------------- getDepths, getNodes
\* The while loop of getDepths: the stack holds [level, v] entries and is
\* popped from its end; the levels of the values that are no dictionaries, in
\* the order in which they are appended.
RECURSIVE DepthsFrom(_)
\* DepthsFrom with the children pushed at the level of their parent
\* (level + 1 left out).
DepthsFrom_SameLevel(stack) ==
  IF stack = << >> THEN << >>
  ELSE LET top == stack[Len(stack)]
           rest == SubSeq(stack, 1, Len(stack) - 1)
       IN IF IsDict(top.v)
          THEN DepthsFrom(rest \o [i \in 1..Len(top.v.items) |->
                                    [level |-> top.level, v |-> top.v.items[i].node]])
          ELSE << top.level >> \o DepthsFrom(rest)

DepthsFrom(stack) ==
  IF stack = << >> THEN << >>
  ELSE LET top == stack[Len(stack)]
           rest == SubSeq(stack, 1, Len(stack) - 1)
       IN IF IsDict(top.v)
          THEN DepthsFrom(rest \o [i \in 1..Len(top.v.items) |->
                                    [level |-> top.level + 1, v |-> top.v.items[i].node]])
          ELSE << top.level >> \o DepthsFrom(rest)

\* getDepths(work) of a dictionary.
getDepths(work) ==
  DepthsFrom([i \in 1..Len(work.items) |-> [level |-> 0, v |-> work.items[i].node]])

\* The while loop of getNodes: the deque holds [p, l, k, v] entries and is
\* popped from its left; the [path, v] pairs yielded.
RECURSIVE NodesFrom(_, _)
NodesFrom(stack, level) ==
  IF stack = << >> THEN << >>
  ELSE LET h == Head(stack)
           n == Append(h.p, h.k)
           below == IF IsDict(h.v)
                    THEN [i \in 1..Len(h.v.items) |->
                           [p |-> n, l |-> h.l + 1, k |-> h.v.items[i].key,
                            v |-> h.v.items[i].node]]
                    ELSE << >>
       IN (IF h.l = level THEN << [path |-> n, v |-> h.v] >> ELSE << >>)
          \o NodesFrom(Tail(stack) \o below, level)

\* list(getNodes(work, level)) of a dictionary.
getNodes(work, level) ==
  NodesFrom([i \in 1..Len(work.items) |->
              [p |-> << >>, l |-> 0, k |-> work.items[i].key, v |-> work.items[i].node]],
            level)

\* ------------------------------------------------------------- asDataFrame
MATRIX == {"rows", "columns", "matrix"}
VENN2 == {"10", "01", "11"}
VENN3 == {"010", "001", "011"}

\* len(set(branch.keys()).intersection(S)) == len(S)
Intersects(branch, S) ==
  Cardinality({k \in S : HasKey(branch, k)}) = Cardinality(S)

\* min(levels) and max(levels) of a non-empty list.
MinOf(levels) == CHOOSE x \in {levels[i] : i \in 1..Len(levels)} :
                   \A i \in 1..Len(levels) : x <= levels[i]
MaxOf(levels) == CHOOSE x \in {levels[i] : i \in 1..Len(levels)} :
                   \A i \in 1..Len(levels) : x >= levels[i]

\* The loop over the branches (lines 251-266), from the i-th branch on.
\* The constructor pandas.DataFrame is outside the module: its call either
\* gives a DataFrame or raises, and `fail` is the number of the pandas call of
\* this run that raises (0: none); `calls` counts the pandas calls made.
\* The result is [exc, tree |-> data after the loop, calls].
RECURSIVE Normalize(_, _, _, _, _)
Normalize(data, branches, i, calls, fail) ==
  IF i > Len(branches) THEN [exc |-> "", tree |-> data, calls |-> calls]
  ELSE LET branch == branches[i].v IN
       IF ~HasKeysAttr(branch)
       THEN [exc |-> "AttributeError", tree |-> data, calls |-> calls]
       ELSE IF /\ IsDict(branch)
               /\ \/ Intersects(branch, MATRIX)
                  \/ Intersects(branch, VENN2)
                  \/ Intersects(branch, VENN3)
       THEN IF calls + 1 = fail
            THEN [exc |-> "PandasError", tree |-> data, calls |-> calls + 1]
            ELSE Normalize(setLeaf(data, branches[i].path, Leaf("DF")).val,
                           branches, i + 1, calls + 1, fail)
       ELSE Normalize(data, branches, i + 1, calls, fail)

\* asDataFrame(data) of a dictionary: [exc, val |-> the value returned, tree
\* |-> data after the call, mi, ma |-> the depths named by the error].  The
\* table is put together by pandas (lines 271-335), one more call that gives
\* a DataFrame or raises.
asDataFrame(data, fail) ==
  LET result(e, v, t, mi, ma) == [exc |-> e, val |-> v, tree |-> t, mi |-> mi, ma |-> ma]
      levels == getDepths(data)
  IN IF Len(data.items) = 0 THEN result("", None, data, 0, 0)
     ELSE IF levels = << >> THEN result("ValueError", None, data, 0, 0)
     ELSE IF MinOf(levels) # MaxOf(levels)
     THEN result("NotImplementedError", None, data, MinOf(levels), MaxOf(levels))
     ELSE LET labels == getPaths(data)
              n == Normalize(data, getNodes(data, Len(labels) - 2), 1, 0, fail)
          IN IF n.exc # "" THEN result(n.exc, None, n.tree, 0, 0)
             ELSE IF n.calls + 1 = fail THEN result("PandasError", None, n.tree, 0, 0)
             ELSE result("", Leaf("DF"), n.tree, 0, 0)

\* -------------------------------------------------------------- tree2table
\* The key that is the tuple ('a', 'b'), a key of the trees given to
\* tree2table; all other keys are strings.
TupleKey == "('a', 'b')"

\* The parts of a key: a key whose type is in Utils.ContainerTypes has
\* several, any other key is its own only part.
KeyParts(k) == IF k = TupleKey THEN << "a", "b" >> ELSE << k >>

\* Utils.ContainerTypes holds the types tuple and list: the payloads that
\* are sequences.
InContainerTypes(x) == IsList(x)

\* The elements of a list payload.
ListItems(x) ==
  IF x.val = "[7]" THEN << Leaf("7") >>
  ELSE IF x.val = "[7, 8]" THEN << Leaf("7"), Leaf("8") >>
  ELSE << >>

\* Utils.quote_rst(x): the display string of a value.
quote_rst(x) == IF IsDict(x) THEN "OrderedDict" ELSE x.val

\* count_levels(labels): the number of parts of the first key of each level.
count_levels(labels) == [i \in 1..Len(labels) |-> Len(KeyParts(labels[i][1]))]

\* sum(l)
RECURSIVE Sum(_)
Sum(l) == IF l = << >> THEN 0 ELSE Head(l) + Sum(Tail(l))

\* [""] * n
Blanks(n) == [i \in 1..n |-> ""]

\* row_data[z] = p for z, p in enumerate(parts); a z beyond the row is an
\* IndexError.
SetCells(row_data, parts) ==
  IF Len(parts) > Len(row_data) THEN [exc |-> "IndexError", val |-> row_data]
  ELSE [exc |-> "",
        val |-> [z \in 1..Len(row_data) |->
                  IF z <= Len(parts) THEN parts[z] ELSE row_data[z]]]

\* `not work`, and work.empty for a DataFrame (lines 635-638).
SkipSubRow(work) ==
  IF IsDataFrame(work) THEN work.val = "DF0"
  ELSE IF IsDict(work) THEN work.items = << >>
  ELSE work.val \in {"None", "''", "[]"}

\* `column in work`: [exc, val].
ColumnIn(column, work) ==
  IF IsDict(work) THEN [exc |-> "", val |-> HasKey(work, column)]
  ELSE IF IsDataFrame(work) \/ IsList(work) \/ IsStr(work) THEN [exc |-> "", val |-> FALSE]
  ELSE [exc |-> "TypeError", val |-> FALSE]

\* CheckColumns that goes on with the shorter length when two sequences
\* differ in length, and raises nothing.
RECURSIVE CheckColumns(_, _, _, _)
CheckColumns_ShortestLength(work, columns, y, max_rows) ==
  IF y > Len(columns) THEN [exc |-> "", is_container |-> TRUE, max_rows |-> max_rows]
  ELSE LET has == ColumnIn(columns[y], work) IN
       IF has.exc # "" THEN [exc |-> has.exc, is_container |-> TRUE, max_rows |-> max_rows]
       ELSE IF ~has.val THEN CheckColumns(work, columns, y + 1, max_rows)
       ELSE LET cell == Lookup(work, columns[y]) IN
            IF ~InContainerTypes(cell)
            THEN [exc |-> "", is_container |-> FALSE, max_rows |-> max_rows]
            ELSE IF max_rows = -1
            THEN CheckColumns(work, columns, y + 1, Len(ListItems(cell)))
            ELSE CheckColumns(work, columns, y + 1, Min(max_rows, Len(ListItems(cell))))

\* The loop that looks for multi-level rows (lines 659-670), from the y-th
\* column on: [exc, is_container, max_rows], max_rows = -1 for None.
CheckColumns(work, columns, y, max_rows) ==
  IF y > Len(columns) THEN [exc |-> "", is_container |-> TRUE, max_rows |-> max_rows]
  ELSE LET has == ColumnIn(columns[y], work) IN
       IF has.exc # "" THEN [exc |-> has.exc, is_container |-> TRUE, max_rows |-> max_rows]
       ELSE IF ~has.val THEN CheckColumns(work, columns, y + 1, max_rows)
       ELSE LET cell == Lookup(work, columns[y]) IN
            IF ~InContainerTypes(cell)
            THEN [exc |-> "", is_container |-> FALSE, max_rows |-> max_rows]
            ELSE IF max_rows = -1
            THEN CheckColumns(work, columns, y + 1, Len(ListItems(cell)))
            ELSE IF max_rows # Len(ListItems(cell))
            THEN [exc |-> "ValueError: unequal lengths", is_container |-> TRUE,
                  max_rows |-> max_rows]
            ELSE CheckColumns(work, columns, y + 1, max_rows)

\* FillRow with the value of a missing column looked up with a default
\* (work.get(column)) and not passed over.
FillRow_MissingAsNone(row_data, work, columns, header_offset, z) ==
  [c \in 1..Len(row_data) |->
     IF c > header_offset /\ c - header_offset <= Len(columns)
     THEN IF HasKey(work, columns[c - header_offset])
          THEN LET cell == Lookup(work, columns[c - header_offset]) IN
               quote_rst(IF z = 0 THEN cell ELSE ListItems(cell)[z])
          ELSE "None"
     ELSE row_data[c]]

\* FillRow with the cells appended to the leading cells of the row, one for
\* each column that the sub-row holds (row_data.append for the assignment by
\* index): a missing column leaves no blank cell.
FillRow_Appended(row_data, work, columns, header_offset, z) ==
  LET held(column) == HasKey(work, column)
      present == SelectSeq(columns, held)
  IN SubSeq(row_data, 1, header_offset) \o
     [c \in 1..Len(present) |->
        quote_rst(IF z = 0 THEN Lookup(work, present[c])
                  ELSE ListItems(Lookup(work, present[c]))[z])]

\* The cells of the columns written into row_data (lines 676-680 with the
\* z-th elements, z >= 1, and lines 688-692 with the values themselves,
\* z = 0); a missing column is a KeyError, which is passed over.
FillRow(row_data, work, columns, header_offset, z) ==
  [c \in 1..Len(row_data) |->
     IF /\ c > header_offset
        /\ c - header_offset <= Len(columns)
        /\ HasKey(work, columns[c - header_offset])
     THEN LET cell == Lookup(work, columns[c - header_offset]) IN
          quote_rst(IF z = 0 THEN cell ELSE ListItems(cell)[z])
     ELSE row_data[c]]

\* MultiRows with row_data not renewed after a row is appended (line 685
\* left out): every row of the sub-row is the one list, which holds the last
\* elements in the end.
MultiRows_SameRow(row_data, work, columns, header_offset, max_rows) ==
  IF max_rows = 0 THEN << row_data >>
  ELSE [z \in 1..max_rows |-> FillRow(row_data, work, columns, header_offset, max_rows)]

\* The rows that a sub-row with multi-level rows adds (lines 675-685 and
\* 694): one for each z, the first with row_data as prepared, the others
\* from blank rows; one row as prepared for max_rows = 0.
MultiRows(row_data, work, columns, header_offset, max_rows) ==
  IF max_rows = 0 THEN << row_data >>
  ELSE [z \in 1..max_rows |->
         FillRow(IF z = 1 THEN row_data ELSE Blanks(Len(row_data)),
                 work, columns, header_offset, z)]

\* The loop over the sub-rows of one main row (lines 631-697), from the
\* xx-th path on.  t = [exc, matrix, row_headers] is the table so far.
RECURSIVE SubRows(_, _, _, _, _, _, _, _, _)
SubRows(data, labels, paths, header_offset, head, row, first, xx, t) ==
  IF xx > Len(paths) THEN t
  ELSE LET work == getLeaf(data, << row >> \o paths[xx]).val
           columns == labels[Len(labels)]
           ncols == header_offset + Len(columns)
           withrow == IF first THEN SetCells(Blanks(ncols), Tail(KeyParts(row)))
                      ELSE [exc |-> "", val |-> Blanks(ncols)]
           row_headers == Append(t.row_headers, IF first THEN KeyParts(row)[1] ELSE "")
           withpath == SetCells(withrow.val, paths[xx])
           chk == CheckColumns(work, columns, 1, -1)
           failed(e) == [exc |-> e, matrix |-> t.matrix, row_headers |-> row_headers]
       IN IF SkipSubRow(work)
          THEN SubRows(data, labels, paths, header_offset, head, row, first, xx + 1, t)
          ELSE IF withrow.exc # "" THEN failed(withrow.exc)
          ELSE IF withpath.exc # "" THEN failed(withpath.exc)
          ELSE IF chk.exc # "" THEN failed(chk.exc)
          ELSE IF chk.is_container /\ chk.max_rows = -1 THEN failed("TypeError")
          ELSE LET rows == IF chk.is_container
                           THEN MultiRows(withpath.val, work, columns, header_offset,
                                          chk.max_rows)
                           ELSE << FillRow(withpath.val, work, columns, header_offset, 0) >>
                   t1 == [exc |-> "",
                          matrix |-> t.matrix \o rows,
                          row_headers |-> row_headers \o Blanks(Len(rows) - 1)]
               IN IF head # 0 /\ Len(t1.matrix) >= head THEN t1
                  ELSE SubRows(data, labels, paths, header_offset, head, row, FALSE,
                               xx + 1, t1)

\* The loop over the main rows (lines 628-697), from the x-th row on.
RECURSIVE MainRows(_, _, _, _, _, _, _)
MainRows(data, labels, paths, header_offset, head, x, t) ==
  IF x > Len(labels[1]) THEN t
  ELSE LET t1 == SubRows(data, labels, paths, header_offset, head, labels[1][x],
                         TRUE, 1, t) IN
       IF t1.exc # "" THEN t1
       ELSE MainRows(data, labels, paths, header_offset, head, x + 1, t1)

\* Zip that leaves the matrix as it is (the headers alone are exchanged).
Zip_Untransposed(matrix) == matrix

\* list(zip(*matrix)): the transposed matrix, as long as the shortest row.
Zip(matrix) ==
  IF matrix = << >> THEN << >>
  ELSE LET n == CHOOSE n \in {Len(matrix[i]) : i \in 1..Len(matrix)} :
                  \A i \in 1..Len(matrix) : n <= Len(matrix[i])
       IN [c \in 1..n |-> [i \in 1..Len(matrix) |-> matrix[i][c]]]

\* tree2table(data, transpose, head): [exc, matrix, row_headers,
\* col_headers]; head = 0 stands for None.  The headers, all strings here,
\* are their own str().
tree2table(data, transpose, head) ==
  LET labels == getPaths(data)
      effective_cols == Sum(SubSeq(count_levels(labels), 1, Len(labels) - 1)) - 1
      col_headers == Blanks(effective_cols) \o labels[Len(labels)]
      paths == Product(SubSeq(labels, 2, Len(labels) - 1))
      t == MainRows(data, labels, paths, effective_cols, head, 1,
                    [exc |-> "", matrix |-> << >>, row_headers |-> << >>])
  IN IF Len(labels) < 2
     THEN [exc |-> "ValueError: at least two levels", matrix |-> << >>,
           row_headers |-> << >>, col_headers |-> << >>]
     ELSE IF t.exc # ""
     THEN [exc |-> t.exc, matrix |-> << >>, row_headers |-> << >>,
           col_headers |-> << >>]
     ELSE IF transpose
     THEN [exc |-> "", matrix |-> Zip(t.matrix), row_headers |-> col_headers,
           col_headers |-> t.row_headers]
     ELSE [exc |-> "", matrix |-> t.matrix, row_headers |-> t.row_headers,
           col_headers |-> col_headers]

\* ------------------------------------------------------------ tree measure
RECURSIVE NodeCount(_)
RECURSIVE NodeCountItems(_, _)
NodeCountItems(its, i) ==
  IF i > Len(its) THEN 0
  ELSE 1 + NodeCount(its[i].node) + NodeCountItems(its, i + 1)
NodeCount(n) == IF IsDict(n) THEN NodeCountItems(n.items, 1) ELSE 0

\* Some payload of the tree is a DataFrame.
RECURSIVE HasDataFrame(_)
HasDataFrame(n) ==
  IF IsDict(n) THEN \E i \in 1..Len(n.items) : HasDataFrame(n.items[i].node)
  ELSE IsDataFrame(n)

\* All sequences over S of length at most n.
RECURSIVE SeqsUpTo(_, _)
SeqsUpTo(S, n) ==
  IF n = 0 THEN {<< >>}
  ELSE LET shorter == SeqsUpTo(S, n - 1) IN
       shorter \cup {Append(p, k) : p \in shorter, k \in S}

\* The dictionaries of at most n entries over all their levels, keys from
\* Keys in any order and payloads from P.  D[i] holds those of exactly i
\* entries: the last entry of the root, with m entries below it, is added to
\* a dictionary of the other i - 1 - m entries.
TreesUpTo(P, n) ==
  LET D[i \in 0..n] ==
        IF i = 0 THEN {EmptyDict}
        ELSE UNION { UNION { { Put(d, k, c) :
                                 k \in {x \in Keys : ~HasKey(d, x)},
                                 c \in D[m] \cup (IF m = 0 THEN {Leaf(x) : x \in P}
                                                   ELSE {}) }
                             : d \in D[i - 1 - m] }
                     : m \in 0..(i - 1) }
  IN UNION {D[i] : i \in 0..n}

\* ------------------------------------------------------------ state machine
\* work: the tree the caller holds.  last: the call that was made last and
\* that the caller has not looked at yet (op = "none": no such call), with
\* its arguments, the tree before it, and its outcome.
VARIABLES work, last
vars == << work, last >>

NoCall == [op |-> "none", path |-> << >>, data |-> None, level1 |-> 0,
           level2 |-> 0, ignore |-> {}, before |-> EmptyDict, exc |-> "",
           val |-> None, paths |-> << >>, pruned |-> << >>, depths |-> << >>,
           mi |-> 0, ma |-> 0, transpose |-> FALSE, head |-> 0,
           matrix |-> << >>, row_headers |-> << >>, col_headers |-> << >>]

Call(o, r) == [NoCall EXCEPT !.op = o, !.before = work, !.exc = r.exc, !.val = r.val]
PathCall(o, p, d, r) == [Call(o, r) EXCEPT !.path = p, !.data = d]
LevelCall(o, l1, l2, r) == [Call(o, r) EXCEPT !.level1 = l1, !.level2 = l2]

\* The caller is between two calls and holds a dictionary.
Idle == last.op = "none" /\ IsDict(work)
\* A DataTree is the earlier form of the tree: its methods have no provision
\* for DataFrames (getPaths would call DataFrame.values), and the model
\* applies them to trees without DataFrames.
IdleDataTree == Idle /\ ~HasDataFrame(work)

SetLeaf(path, data) ==
  /\ Idle
  /\ \E r \in {setLeaf(work, path, data)} :
     /\ r.exc # "unmodelled"
     /\ r.exc = "" => NodeCount(r.val) <= MaxNodes
     /\ work' = IF r.exc = "" THEN r.val ELSE work
     /\ last' = PathCall("setLeaf", path, data, [r EXCEPT !.val = None])

DataTreeSetLeaf(path, data) ==
  /\ IdleDataTree
  /\ \E r \in {DataTree_setLeaf(work, path, data)} :
     /\ ~IsDataFrame(data)
     /\ r.exc = "" => NodeCount(r.val) <= MaxNodes
     /\ work' = IF r.exc = "" THEN r.val ELSE work
     /\ last' = PathCall("DataTree.setLeaf", path, data, [r EXCEPT !.val = None])

GetLeaf(path) ==
  /\ Idle
  /\ \E r \in {getLeaf(work, path)} :
     /\ work' = work
     /\ last' = PathCall("getLeaf", path, None, r)

DataTreeGetLeaf(path) ==
  /\ IdleDataTree
  /\ \E r \in {DataTree_getLeaf(work, path)} :
     /\ work' = work
     /\ last' = PathCall("DataTree.getLeaf", path, None, r)

\* removeLeaf returns the container it deleted from.
RemoveLeaf(path) ==
  /\ Idle
  /\ \E r \in {removeLeaf(work, path)} :
     /\ r.exc # "unmodelled"
     /\ work' = IF r.exc = "" THEN r.val ELSE work
     /\ last' = PathCall("removeLeaf", path, None,
                         IF r.exc = ""
                         THEN getLeaf(r.val, SubSeq(path, 1, Len(path) - 1))
                         ELSE r)

DataTreeRemoveLeaf(path) ==
  /\ IdleDataTree
  /\ \E r \in {DataTree_removeLeaf(work, path)} :
     /\ work' = IF r.exc = "" THEN r.val ELSE work
     /\ last' = PathCall("DataTree.removeLeaf", path, None, [r EXCEPT !.val = None])

GetPaths ==
  /\ Idle
  /\ \E r \in {Ok(getPaths(work))} :
     /\ work' = work
     /\ last' = [Call("getPaths", Ok(None)) EXCEPT !.paths = r.val]

DataTreeGetPaths ==
  /\ IdleDataTree
  /\ \E r \in {DataTree_getPaths(work)} :
     /\ work' = work
     /\ last' = [Call("DataTree.getPaths", [r EXCEPT !.val = None])
                   EXCEPT !.paths = IF r.exc = "" THEN r.val ELSE << >>]

RemoveEmptyLeaves ==
  /\ Idle
  /\ \E r \in {removeEmptyLeaves(work)} :
     /\ work' = r.node
     /\ last' = Call("removeEmptyLeaves", Ok(PyBool(r.keep)))

GetDepths ==
  /\ Idle
  /\ \E r \in {getDepths(work)} :
     /\ work' = work
     /\ last' = [Call("getDepths", Ok(None)) EXCEPT !.depths = r]

\* asDataFrame(work); `fail` is the pandas call that raises, if any.
AsDataFrame(fail) ==
  /\ Idle
  /\ \E r \in {asDataFrame(work, fail)} :
     /\ work' = r.tree
     /\ last' = [Call("asDataFrame", [exc |-> r.exc, val |-> r.val])
                   EXCEPT !.mi = r.mi, !.ma = r.ma]

\* tree2table(work, transpose, head) leaves the tree as it is.
Tree2Table(transpose, head) ==
  /\ Idle
  /\ \E r \in {tree2table(work, transpose, head)} :
     /\ work' = work
     /\ last' = [Call("tree2table", [exc |-> r.exc, val |-> None])
                   EXCEPT !.transpose = transpose, !.head = head,
                          !.matrix = r.matrix, !.row_headers = r.row_headers,
                          !.col_headers = r.col_headers]

\* work = swop(work, level1, level2): the caller holds what swop returns.
Swop(level1, level2) ==
  /\ Idle
  /\ \E r \in {swop(work, level1, level2)} :
     /\ work' = IF r.exc = "" THEN r.val ELSE work
     /\ last' = LevelCall("swop", level1, level2, r)

\* tree.swop(level1, level2) changes the DataTree and returns nothing.
DataTreeSwop(level1, level2) ==
  /\ IdleDataTree
  /\ \E r \in {DataTree_swop(work, level1, level2)} :
     /\ work' = IF r.exc = "" THEN r.val ELSE work
     /\ last' = LevelCall("DataTree.swop", level1, level2, [r EXCEPT !.val = None])

Prune(ignore) ==
  /\ Idle
  /\ \E r \in {prune(work, ignore)} :
     /\ work' = r.tree
     /\ last' = [Call("prune", [exc |-> r.exc, val |-> None])
                   EXCEPT !.ignore = ignore, !.pruned = r.val]

\* The caller has looked at the outcome of the last call.
Return ==
  /\ last.op # "none"
  /\ last' = NoCall
  /\ work' = work

\* -------------------------------------------------- the path operations
\* Trees are built from the empty tree by setLeaf.
PathPayloads == {"None", "1", "[7]", "DF"}
SetPaths == SeqsUpTo(Keys, MaxNodes)
QueryPaths == SeqsUpTo(QueryKeys, MaxNodes)
\* What setLeaf may bind: a payload or a new empty dictionary.
SetData == {Leaf(p) : p \in PathPayloads} \cup {EmptyDict}

Init == work = EmptyDict /\ last = NoCall

Next ==
  \/ \E path \in SetPaths, data \in SetData : SetLeaf(path, data)
  \/ \E path \in SetPaths, data \in SetData : DataTreeSetLeaf(path, data)
  \/ \E path \in QueryPaths : GetLeaf(path)
  \/ \E path \in QueryPaths : DataTreeGetLeaf(path)
  \/ \E path \in SetPaths : RemoveLeaf(path)
  \/ \E path \in SetPaths : DataTreeRemoveLeaf(path)
  \/ Return

Spec == Init /\ [][Next]_vars

\* ------------------------------------- getPaths and removeEmptyLeaves
\* The calls are made on every tree of at most MaxNodes entries.
InitTree == work \in TreesUpTo(Payloads, MaxNodes) /\ last = NoCall

\* The number of the pandas call that raises (0: none).
PandasFailures == 0..2

NextTree ==
  \/ GetPaths
  \/ DataTreeGetPaths
  \/ RemoveEmptyLeaves
  \/ GetDepths
  \/ \E fail \in PandasFailures : AsDataFrame(fail)
  \/ Return

SpecTree == InitTree /\ [][NextTree]_vars

\* ------------------------------------------------------- swop and prune
\* The calls are made on every tree of at most LevelNodes entries.
LevelPayloads == {"None", "1", "DF"}
Levels == 0..(LevelNodes - 1)
IgnoreSets == {{}, {"a"}}

InitLevels == work \in TreesUpTo(LevelPayloads, LevelNodes) /\ last = NoCall

NextLevels ==
  \/ \E level1 \in Levels, level2 \in Levels : Swop(level1, level2)
  \/ \E level1 \in Levels, level2 \in Levels : DataTreeSwop(level1, level2)
  \/ \E ignore \in IgnoreSets : Prune(ignore)
  \/ Return

SpecLevels == InitLevels /\ [][NextLevels]_vars

\* ---------------------------------------- asDataFrame on composite leaves
\* asDataFrame is called on trees of one branch whose keys are keys of the
\* composite encodings: the three keys of a numpy matrix, the three keys of
\* Venn 2-set data and the seven keys of Venn 3-set data.  A branch has at
\* most PivotKeys keys and binds the same payload to each.
PivotKeys == 3
EncodingKeys ==
  {"rows", "columns", "matrix", "10", "01", "11",
   "001", "010", "011", "100", "101", "110", "111"}
PivotPayloads == {"1", "[7]"}

\* The dictionary that binds p to every key of K.
RECURSIVE BranchOf(_, _)
BranchOf(K, p) ==
  IF K = {} THEN EmptyDict
  ELSE LET k == CHOOSE x \in K : TRUE IN Put(BranchOf(K \ {k}, p), k, Leaf(p))

InitPivot ==
  /\ \E top \in Keys, p \in PivotPayloads :
       \E K \in {S \in SUBSET EncodingKeys : Cardinality(S) \in 1..PivotKeys} :
         work = Dict(<< [key |-> top, node |-> BranchOf(K, p)] >>)
  /\ last = NoCall

NextPivot ==
  \/ \E fail \in PandasFailures : AsDataFrame(fail)
  \/ Return

SpecPivot == InitPivot /\ [][NextPivot]_vars

\* ------------------------------------------------- prune on wider trees
\* prune is also called on trees of three branches, the first and the third
\* with the payload 1 and the second branch a payload itself: a DataFrame
\* there ends getPaths' scan of the level, so that the third branch is a
\* container whose keys getPaths does not collect.
ThirdKey == "c"
BranchTrees == TreesUpTo({"1"}, LevelNodes - 2)
ThreeBranches(x, y, z) ==
  Dict(<< [key |-> "a", node |-> x], [key |-> "b", node |-> Leaf(y)],
          [key |-> ThirdKey, node |-> z] >>)

InitPrune ==
  /\ \/ work \in TreesUpTo(LevelPayloads, LevelNodes)
     \/ \E x \in BranchTrees, y \in LevelPayloads, z \in BranchTrees :
          work = ThreeBranches(x, y, z)
  /\ last = NoCall

NextPrune ==
  \/ \E ignore \in IgnoreSets : Prune(ignore)
  \/ Return

SpecPrune == InitPrune /\ [][NextPrune]_vars

\* --------------------------------------------------------------- tree2table
\* The calls are made on every tree of 1 to TableNodes entries and on every
\* tree of two levels whose leaves are scalars.
TablePayloads == {"None", "1", "[]", "[7]", "[7, 8]", "DF"}
Scalars == {"1", "2"}
\* The values of the argument head, 0 for None.
Heads == {0, 1, 2}

\* The dictionaries of at most two entries with keys from K, in any order,
\* and values from V.
DictsOver(K, V) ==
  {EmptyDict}
  \cup {Dict(<< [key |-> k, node |-> v] >>) : k \in K, v \in V}
  \cup {Dict(<< [key |-> k[1], node |-> v[1]], [key |-> k[2], node |-> v[2]] >>) :
          k \in {x \in K \X K : x[1] # x[2]}, v \in V \X V}

\* The main rows of these trees may have the tuple as their key.
TwoLevelTrees ==
  DictsOver(Keys \cup {TupleKey}, DictsOver(Keys, {Leaf(p) : p \in Scalars}))

\* A dictionary of at most TableNodes entries is the empty one, or one of
\* fewer entries with one more key, bound to a payload or to a dictionary of
\* the entries that are left.
InitTable ==
  /\ \/ work \in TwoLevelTrees
     \/ \E m \in 0..(TableNodes - 1) :
          \E d \in TreesUpTo(TablePayloads, TableNodes - 1 - m), k \in Keys,
             c \in TreesUpTo(TablePayloads, m) \cup {Leaf(p) : p \in TablePayloads} :
            /\ ~HasKey(d, k)
            /\ work = Put(d, k, c)
  /\ last = NoCall

NextTable ==
  \/ \E transpose \in BOOLEAN, head \in Heads : Tree2Table(transpose, head)
  \/ Return

SpecTable == InitTable /\ [][NextTable]_vars

\* ------------------------------------------------------ what a tree binds
\* The path leads, key by key through dictionaries, to a node of t.
RECURSIVE Exists(_, _)
Exists(t, path) ==
  \/ path = << >>
  \/ /\ IsDict(t)
     /\ HasKey(t, Head(path))
     /\ Exists(Lookup(t, Head(path)), Tail(path))

\* The node an existing path leads to.
RECURSIVE NodeAt(_, _)
NodeAt(t, path) ==
  IF path = << >> THEN t ELSE NodeAt(Lookup(t, Head(path)), Tail(path))

\* The paths of all nodes of t, the root included.
RECURSIVE AllPaths(_)
AllPaths(t) ==
  {<< >>} \cup
  (IF IsDict(t)
   THEN UNION { { << t.items[i].key >> \o q : q \in AllPaths(t.items[i].node) }
                : i \in 1..Len(t.items) }
   ELSE {})

Prefix(path, n) == SubSeq(path, 1, n)
IsPrefixOf(p, q) == Len(p) <= Len(q) /\ Prefix(q, Len(p)) = p

\* ---------------------------------------------------------------- claims

\* C1: for every tree and every path, get(path) never raises; it returns the
\* node bound at the path when the whole path exists (the root for the empty
\* path) and None when a key is missing or the path runs past a payload.
C1_GetNeverRaises ==
  last.op \in {"getLeaf", "DataTree.getLeaf"} =>
    /\ last.exc = ""
    /\ last.val = IF Exists(last.before, last.path)
                  THEN NodeAt(last.before, last.path) ELSE None

\* C2, as claimed: set(path, value) with a non-empty path succeeds on every
\* tree built by set operations, whatever is bound at the prefixes of the
\* path, and get(path) then returns value.
C2_SetThenGetAnyPrefix ==
  (last.op \in {"setLeaf", "DataTree.setLeaf"} /\ last.path # << >>) =>
    /\ last.exc = ""
    /\ getLeaf(work, last.path) = Ok(last.data)

\* No proper prefix of the path is bound to a payload.
PrefixesAreContainers(t, path) ==
  \A n \in 1..(Len(path) - 1) :
    Exists(t, Prefix(path, n)) => IsDict(NodeAt(t, Prefix(path, n)))

\* C2, amended: when no proper prefix of the non-empty path is bound to a
\* payload, set(path, value) succeeds, every proper prefix of the path is a
\* dictionary afterwards, get(path) returns value, and the nodes that are not
\* on the path are as before.
C2_SetThenGet ==
  (/\ last.op \in {"setLeaf", "DataTree.setLeaf"}
   /\ last.path # << >>
   /\ PrefixesAreContainers(last.before, last.path)) =>
    /\ last.exc = ""
    /\ \A n \in 0..(Len(last.path) - 1) :
         /\ Exists(work, Prefix(last.path, n))
         /\ IsDict(NodeAt(work, Prefix(last.path, n)))
    /\ Exists(work, last.path)
    /\ NodeAt(work, last.path) = last.data
    /\ getLeaf(work, last.path) = Ok(last.data)
    /\ \A q \in AllPaths(last.before) :
         ~IsPrefixOf(q, last.path) /\ ~IsPrefixOf(last.path, q) =>
           Exists(work, q) /\ NodeAt(work, q) = NodeAt(last.before, q)

\* C2, witness: a set into a non-empty tree that made a missing intermediate
\* container.
C2_Witness ==
  /\ last.op = "setLeaf"
  /\ Len(last.path) = 2
  /\ ~Exists(last.before, Prefix(last.path, 1))
  /\ last.before # EmptyDict
  /\ last.exc = ""
  /\ NodeAt(work, last.path) = Leaf("1")

\* Some key of the path is missing from the dictionary that its prefix
\* leads to.
KeyMissing(t, path) ==
  \E n \in 1..Len(path) :
    /\ Exists(t, Prefix(path, n - 1))
    /\ IsDict(NodeAt(t, Prefix(path, n - 1)))
    /\ ~HasKey(NodeAt(t, Prefix(path, n - 1)), path[n])

\* C3: remove(path) on an existing non-empty path deletes exactly that key,
\* with what is below it, and changes nothing else; when a key of the path is
\* missing it fails with KeyError and the tree is unchanged.
C3_RemoveOrKeyError ==
  (last.op \in {"removeLeaf", "DataTree.removeLeaf"} /\ last.path # << >>) =>
    /\ Exists(last.before, last.path) =>
         /\ last.exc = ""
         /\ AllPaths(work) = {q \in AllPaths(last.before) : ~IsPrefixOf(last.path, q)}
         /\ \A q \in AllPaths(work) :
              IF IsDict(NodeAt(work, q))
              THEN /\ IsDict(NodeAt(last.before, q))
                   /\ KeysOf(NodeAt(work, q)) =
                        SelectSeq(KeysOf(NodeAt(last.before, q)),
                                  LAMBDA k : Append(q, k) # last.path)
              ELSE NodeAt(work, q) = NodeAt(last.before, q)
    /\ KeyMissing(last.before, last.path) =>
         /\ last.exc = "KeyError"
         /\ work = last.before

\* C3 for the module-level removeLeaf alone.
C3_FunctionRemoveOrKeyError == last.op = "removeLeaf" => C3_RemoveOrKeyError

\* A leaf that is None, an empty string or a zero-length sequence, or a
\* container without children.
IsEmptyNode(n) ==
  IF IsDict(n) THEN n.items = << >> ELSE n.val \in {"None", "''", "[]"}

\* C9: after removeEmptyLeaves no empty node remains below the root: no leaf
\* that is None, an empty string or a zero-length sequence, and no container
\* without children.
C9_NoEmptyNodeRemains ==
  last.op = "removeEmptyLeaves" =>
    /\ last.exc = ""
    /\ \A q \in AllPaths(work) : q # << >> => ~IsEmptyNode(NodeAt(work, q))

\* C9 for containers alone: no container without children remains below the
\* root.
C9_NoEmptyContainerRemains ==
  last.op = "removeEmptyLeaves" =>
    \A q \in AllPaths(work) : q # << >> => NodeAt(work, q) # EmptyDict

\* The containers of t at depth d, breadth first.
RECURSIVE ContainersAt(_, _)
ContainersAt(t, d) ==
  IF d = 0 THEN (IF IsDict(t) THEN << t >> ELSE << >>)
  ELSE LET up == ContainersAt(t, d - 1) IN
       Flatten([i \in 1..Len(up) |-> SelectSeq(ValuesOf(up[i]), IsDict)])

\* The elements of s, each once, in the order of their first occurrence.
FirstSeen(s) ==
  LET first == {i \in 1..Len(s) : \A j \in 1..(i - 1) : s[j] # s[i]}
      nth[n \in 0..Len(s)] ==
        IF n = 0 THEN 0 ELSE CHOOSE i \in first : i > nth[n - 1] /\ \A j \in first : j > nth[n - 1] => i <= j
  IN [n \in 1..Cardinality(first) |-> s[nth[n]]]

\* The keys of all containers of t at depth d.
LevelKeys(t, d) ==
  LET cs == ContainersAt(t, d) IN
  FirstSeen(Flatten([i \in 1..Len(cs) |-> KeysOf(cs[i])]))

\* The number of depths at which a container of t has a key.
Depth(t) == Cardinality({d \in 0..NodeCount(t) : LevelKeys(t, d) # << >>})

\* C10: getPaths returns, for each depth, the keys of all containers at that
\* depth, each once and in first-seen breadth-first order; a payload, a
\* DataFrame included, only ends its own branch; the result has one entry per
\* depth down to the deepest container that has keys.
C10_GetPathsCollectsEveryContainer ==
  last.op \in {"getPaths", "DataTree.getPaths"} =>
    /\ last.exc = ""
    /\ last.paths = [d \in 1..Depth(last.before) |-> LevelKeys(last.before, d - 1)]

\* C10 on trees without a DataFrame.
C10_WithoutDataFrame ==
  ~HasDataFrame(last.before) => C10_GetPathsCollectsEveryContainer

\* The paths of t that are bound to a payload.
LeafPaths(t) == {q \in AllPaths(t) : ~IsDict(NodeAt(t, q))}

\* The path with its keys at levels i and j exchanged.
SwapKeys(p, i, j) ==
  [n \in 1..Len(p) |-> IF n = i + 1 THEN p[j + 1]
                       ELSE IF n = j + 1 THEN p[i + 1] ELSE p[n]]

\* The bindings of t to payloads other than None, moved to the paths that
\* have their keys at levels i and j exchanged.
Swopped(result, t, i, j) ==
  /\ IsDict(result)
  /\ \A p \in LeafPaths(t) :
       Len(p) > j => getLeaf(result, SwapKeys(p, i, j)) = Ok(NodeAt(t, p))
  /\ \A q \in LeafPaths(result) :
       /\ Len(q) > j
       /\ SwapKeys(q, i, j) \in LeafPaths(t)
       /\ NodeAt(t, SwapKeys(q, i, j)) = NodeAt(result, q)

\* C4: for levels i < j below the number of levels, swop(T, i, j) binds every
\* path of T that reaches level j, with its keys at levels i and j exchanged,
\* to the same payload, also when a key occurs at both levels, and binds no
\* path that is not such an image.
C4_SwopExchangesLevels ==
  (/\ last.op = "swop"
   /\ last.level1 < last.level2
   /\ last.level2 < Len(getPaths(last.before))) =>
    /\ last.exc = ""
    /\ Swopped(work, last.before, last.level1, last.level2)

\* Some node at depth d or d + 1 of t is a DataFrame.
DataFrameAt(t, d) ==
  \E q \in AllPaths(t) : Len(q) \in {d, d + 1} /\ IsDataFrame(NodeAt(t, q))

\* C4 on trees without a DataFrame one or two levels below level j.
C4_WithoutDataFrameBelow ==
  ~DataFrameAt(last.before, last.level2 + 1) => C4_SwopExchangesLevels

\* The path -> payload bindings of t, payloads other than None.
Bindings(t) ==
  {<< q, NodeAt(t, q) >> : q \in {x \in LeafPaths(t) : NodeAt(t, x) # None}}

\* The keys that getPaths reports at level i of t.
LevelOf(t, i) == {getPaths(t)[i + 1][n] : n \in 1..Len(getPaths(t)[i + 1])}

\* Levels i and j are different levels of t that share no key.
DisjointLevels(t, i, j) ==
  /\ i # j
  /\ i < Len(getPaths(t))
  /\ j < Len(getPaths(t))
  /\ LevelOf(t, i) \cap LevelOf(t, j) = {}

\* The outcome of the same swop made once more on the tree that the first
\* swop left.
SwopAgain ==
  IF last.op = "swop" THEN swop(work, last.level1, last.level2)
  ELSE DataTree_swop(work, last.level1, last.level2)

\* C5: for different valid levels i and j that share no key,
\* swop(swop(T, i, j), i, j) has exactly the path -> payload bindings of T.
C5_SwopTwiceRestores ==
  (/\ last.op \in {"swop", "DataTree.swop"}
   /\ DisjointLevels(last.before, last.level1, last.level2)) =>
    /\ last.exc = ""
    /\ SwopAgain.exc = ""
    /\ Bindings(SwopAgain.val) = Bindings(last.before)

\* Every payload of t is bound below level j.
AllLeavesBelow(t, j) == \A q \in LeafPaths(t) : Len(q) > j

\* C5 on trees whose payloads are neither None nor a DataFrame and all lie
\* below both levels.
C5_PlainPayloadsAllBelow ==
  (/\ \A q \in LeafPaths(last.before) : NodeAt(last.before, q) = Leaf("1")
   /\ AllLeavesBelow(last.before, Max(last.level1, last.level2))) =>
    C5_SwopTwiceRestores

C7_EqualLevelsNoOp ==
  (/\ last.op \in {"swop", "DataTree.swop"}
   /\ last.level1 = last.level2
   /\ last.level1 < Len(getPaths(last.before))) =>
    /\ last.exc = ""
    /\ work = last.before

\* C7 for DataTree.swop alone.
C7_Method == last.op = "DataTree.swop" => C7_EqualLevelsNoOp

\* C8: prune is idempotent: a second prune, with the same ignore set, of the
\* tree that a prune left changes nothing in it and reports no removed level.
C8_PruneIdempotent ==
  (last.op = "prune" /\ last.exc = "") =>
    LET again == prune(work, last.ignore) IN
    /\ again.exc = ""
    /\ again.tree = work
    /\ again.val = << >>

\* C8, witness: a prune that removed a level of a tree.
C8_Witness ==
  /\ last.op = "prune"
  /\ last.exc = ""
  /\ last.pruned # << >>
  /\ work # EmptyDict

\* The depths at which t binds a payload, the children of the root at depth 0.
LeafDepths(t) == {Len(q) - 1 : q \in LeafPaths(t)}

\* The distinct values of a list.
Distinct(s) == {s[i] : i \in 1..Len(s)}

\* What C11 says of getDepths and asDataFrame on the trees that satisfy P.
DepthsUniformOrFail(P(_)) ==
  /\ (/\ last.op = "getDepths"
      /\ P(last.before)
      /\ Cardinality(LeafDepths(last.before)) <= 1) =>
       /\ last.exc = ""
       /\ Cardinality(Distinct(last.depths)) = 1
  /\ (/\ last.op = "asDataFrame"
      /\ P(last.before)
      /\ Cardinality(LeafDepths(last.before)) >= 2) =>
       /\ last.exc = "NotImplementedError"
       /\ last.val = None
       /\ \A d \in LeafDepths(last.before) : last.mi <= d /\ d <= last.ma
       /\ {last.mi, last.ma} \subseteq LeafDepths(last.before)

NonEmptyTree(t) == t # EmptyDict
HasLeaf(t) == LeafPaths(t) # {}

\* C11, as claimed: for every non-empty tree, getDepths yields exactly one
\* distinct value when all leaves lie at the same depth, and whenever it
\* yields two or more distinct values asDataFrame fails with
\* NotImplementedError, which names the smallest and the largest depth of a
\* leaf, and returns no table.
C11_NonEmptyTree == DepthsUniformOrFail(NonEmptyTree)

\* C11, amended: the same for every tree that binds at least one payload.
C11_TreeWithLeaf == DepthsUniformOrFail(HasLeaf)

\* C11, witness: asDataFrame has failed on a tree with leaves at depths 0
\* and 1.
C11_Witness ==
  /\ last.op = "asDataFrame"
  /\ LeafDepths(last.before) = {0, 1}
  /\ last.exc = "NotImplementedError"
  /\ last.mi = 0
  /\ last.ma = 1

\* A payload that is neither a sequence nor a table.
IsScalar(n) == ~IsDict(n) /\ n.val \in Scalars \cup {"None"}

\* A tree of two levels with scalar leaves and no empty branch.
TwoLevelScalar(t) ==
  /\ t # EmptyDict
  /\ \A i \in 1..Len(t.items) :
       /\ IsDict(t.items[i].node)
       /\ t.items[i].node # EmptyDict
       /\ \A j \in 1..Len(t.items[i].node.items) :
            IsScalar(t.items[i].node.items[j].node)

\* What C12 says of tree2table on the trees that satisfy P.
TwoLevelTable(P(_)) ==
  (/\ last.op = "tree2table"
   /\ ~last.transpose
   /\ last.head = 0
   /\ TwoLevelScalar(last.before)
   /\ P(last.before)) =>
    LET rows == KeysOf(last.before)
        cols == LevelKeys(last.before, 1)
    IN /\ last.exc = ""
       /\ last.row_headers = rows
       /\ last.col_headers = cols
       /\ last.matrix =
            [i \in 1..Len(rows) |->
              [j \in 1..Len(cols) |->
                IF Exists(last.before, << rows[i], cols[j] >>)
                THEN NodeAt(last.before, << rows[i], cols[j] >>).val
                ELSE ""]]

AnyTree(t) == TRUE
\* No key of the root of t is a tuple.
PlainRowKeys(t) == ~HasKey(t, TupleKey)

\* C12, as claimed: for every two-level tree with scalar leaves and no empty
\* branch, tree2table returns the level-0 keys in order as row_headers, the
\* level-1 keys in first-seen order as col_headers, and a matrix whose cell
\* (i, j) is the display string of the payload at (row_i, col_j), or blank
\* when the branch has no such column.
C12_AnyKeys == TwoLevelTable(AnyTree)

\* C12, amended: the same for the trees none of whose keys is a tuple.
C12_TwoLevelTable == TwoLevelTable(PlainRowKeys)

\* C12, witness: a table of two rows and two columns with a blank cell and
\* with columns in an order that no single row has.
C12_Witness ==
  /\ last.op = "tree2table"
  /\ ~last.transpose
  /\ last.head = 0
  /\ TwoLevelScalar(last.before)
  /\ last.row_headers = << "b", "a" >>
  /\ last.col_headers = << "b", "a" >>
  /\ last.matrix = << << "1", "" >>, << "2", "1" >> >>

\* C13: with head = N >= 1, tree2table returns at most N rows, the first N
\* of the rows assembled without head, rows counted after the expansion of
\* multi-level rows.
C13_HeadTruncates ==
  (/\ last.op = "tree2table"
   /\ ~last.transpose
   /\ last.head >= 1
   /\ last.exc = "") =>
    LET full == tree2table(last.before, FALSE, 0) IN
    /\ Len(last.matrix) <= last.head
    /\ full.exc = "" =>
         /\ last.matrix = SubSeq(full.matrix, 1, Min(last.head, Len(full.matrix)))
         /\ last.row_headers =
              SubSeq(full.row_headers, 1, Min(last.head, Len(full.row_headers)))

\* The matrix m2 with headers r2, c2 is the transpose of m1 with r1, c1.
IsTranspose(m2, r2, c2, m1, r1, c1) ==
  /\ r2 = c1
  /\ c2 = r1
  /\ Len(m2) = Len(c1)
  /\ \A j \in 1..Len(m2) :
       /\ Len(m2[j]) = Len(m1)
       /\ \A i \in 1..Len(m1) : m2[j][i] = m1[i][j]

\* C14: for every tree on which tree2table succeeds, tree2table with
\* transpose=True succeeds and returns the transpose: the col_headers of the
\* untransposed result as row_headers, its row_headers as col_headers, and
\* its cell (i, j) as cell (j, i).
C14_TransposeIsTranspose ==
  (last.op = "tree2table" /\ last.transpose) =>
    LET plain == tree2table(last.before, FALSE, last.head) IN
    /\ last.exc = plain.exc
    /\ last.exc = "" =>
         IsTranspose(last.matrix, last.row_headers, last.col_headers,
                     plain.matrix, plain.row_headers, plain.col_headers)

\* C14, witness: a transposed table of two rows and two columns that is not
\* symmetric.
C14_Witness ==
  /\ last.op = "tree2table"
  /\ last.transpose
  /\ last.exc = ""
  /\ Len(last.matrix) = 2
  /\ Len(last.matrix[1]) = 2
  /\ last.matrix[1][2] # last.matrix[2][1]

\* All branches of t end at the same depth: the depth of every payload and
\* of every empty container is the same.
UniformDepth(t) ==
  Cardinality({Len(q) : q \in {x \in AllPaths(t) :
                                 x # << >> /\ (~IsDict(NodeAt(t, x))
                                               \/ NodeAt(t, x) = EmptyDict)}}) <= 1

\* Some container below the root of t holds sequences only, of different
\* lengths.
HasRaggedSubRow(t) ==
  \E q \in AllPaths(t) :
    /\ q # << >>
    /\ IsDict(NodeAt(t, q))
    /\ \A i \in 1..Len(NodeAt(t, q).items) : IsList(NodeAt(t, q).items[i].node)
    /\ \E i, j \in 1..Len(NodeAt(t, q).items) :
         Len(ListItems(NodeAt(t, q).items[i].node))
           # Len(ListItems(NodeAt(t, q).items[j].node))

\* What C17 says of tree2table on the calls that satisfy P.
RaggedFails(P) ==
  (last.op = "tree2table" /\ HasRaggedSubRow(last.before) /\ P) =>
    /\ last.exc = "ValueError: unequal lengths"
    /\ last.matrix = << >>

\* C17, as claimed: when within one sub-row the last-level columns map to
\* sequences of different lengths, tree2table fails with the ValueError for
\* unequal lengths and returns no table.
C17_RaggedAlwaysFails == RaggedFails(TRUE)

\* C17, amended: the same for a tree whose branches all end at the same
\* depth and a call without head.
C17_RaggedFailsUniform == RaggedFails(UniformDepth(last.before) /\ last.head = 0)

\* C17, witness: a call without head has failed on a tree of uniform depth
\* with a sub-row whose sequences have the lengths 1 and 2.
C17_Witness ==
  /\ last.op = "tree2table"
  /\ HasRaggedSubRow(last.before)
  /\ UniformDepth(last.before)
  /\ \E q \in LeafPaths(last.before) : NodeAt(last.before, q) = Leaf("[7]")
  /\ \E q \in LeafPaths(last.before) : NodeAt(last.before, q) = Leaf("[7, 8]")
  /\ last.head = 0
  /\ last.exc = "ValueError: unequal lengths"

\* The tree that prune works on once the empty leaves are removed, and its
\* levels.
Cleaned == removeEmptyLeaves(last.before).node
CleanedLevels == getPaths(Cleaned)

\* The levels of the pairs that prune returned.
PrunedLevels == {last.pruned[i][1] : i \in 1..Len(last.pruned)}

\* The sequence s without its elements at the positions of the levels in S,
\* levels counted from 0.
RECURSIVE DropLevels(_, _)
DropLevels(s, S) ==
  IF s = << >> THEN << >>
  ELSE LET front == DropLevels(SubSeq(s, 1, Len(s) - 1), S) IN
       IF (Len(s) - 1) \in S THEN front ELSE Append(front, s[Len(s)])

\* C15: prune never reduces a tree to zero levels: a tree that has a level
\* after its empty leaves were removed has a level after prune, whether prune
\* returns or raises, and a prune that returns has collapsed fewer levels than
\* the tree had, so that level 0 is not collapsed when it is the only level
\* left, also when the deeper levels were collapsed in the same call.
C15_NeverZeroLevels ==
  (last.op = "prune" /\ CleanedLevels # << >>) =>
    /\ IsDict(work)
    /\ work # EmptyDict
    /\ last.exc = "" =>
         /\ getPaths(work) # << >>
         /\ Len(last.pruned) < Len(CleanedLevels)
         /\ 0 \in PrunedLevels => Len(getPaths(work)) >= 1

\* C15, witness: every level of a tree of two levels could be collapsed, and
\* prune has collapsed level 1 and left level 0.
C15_Witness ==
  /\ last.op = "prune"
  /\ last.exc = ""
  /\ Len(CleanedLevels) = 2
  /\ \A i \in 1..2 : Len(CleanedLevels[i]) = 1 /\ CleanedLevels[i][1] \notin last.ignore
  /\ PrunedLevels = {1}
  /\ Len(getPaths(work)) = 1

PrefixNodes(t, level) ==
  LET prefixes == getPrefixes(t, level) IN
  {NodeAt(t, prefixes[i]) : i \in {j \in 1..Len(prefixes) : Exists(t, prefixes[j])}}
    \ {None}

\* The number of keys, rows or elements of a node that has a length.
Size(n) == IF IsDict(n) THEN Len(n.items) ELSE PyLen(n).val

\* C19, as claimed: prune collapses a level with exactly one label, not in
\* the ignore set, only if every sub-container that a prefix of the level
\* leads to has more than one key or does not hold the label.
C19_CollapsesIfManyOrMissing ==
  (last.op = "prune" /\ last.exc = "") =>
    \A i \in 1..Len(last.pruned) :
      LET level == last.pruned[i][1]
          label == last.pruned[i][2]
      IN /\ CleanedLevels[level + 1] = << label >>
         /\ label \notin last.ignore
         /\ \A n \in PrefixNodes(Cleaned, level) :
              Size(n) > 1 \/ ~(IsDict(n) /\ HasKey(n, label))

\* C19, amended: prune collapses a level with exactly one label, not in the
\* ignore set, only if every sub-container that a prefix of the level leads
\* to holds the label and no other key.
C19_CollapsesIfSoleKey ==
  (last.op = "prune" /\ last.exc = "") =>
    \A i \in 1..Len(last.pruned) :
      LET level == last.pruned[i][1]
          label == last.pruned[i][2]
      IN /\ CleanedLevels[level + 1] = << label >>
         /\ label \notin last.ignore
         /\ \A n \in PrefixNodes(Cleaned, level) :
              IsDict(n) /\ KeysOf(n) = << label >>

\* C19, witness: prune has collapsed level 1, which two prefixes lead to.
C19_Witness ==
  /\ last.op = "prune"
  /\ last.exc = ""
  /\ PrunedLevels = {1}
  /\ Cardinality(PrefixNodes(Cleaned, 1)) = 2

\* C20: collapsing levels loses no data: the tree after prune binds, for
\* every payload of the tree after empty-leaf removal at path p, the same
\* payload at p without its keys at the collapsed levels, also when a child
\* key equals the label that is left out, and binds no other payload.
C20_CollapseKeepsPayloads ==
  (last.op = "prune" /\ last.exc = "") =>
    /\ \A p \in LeafPaths(Cleaned) :
         /\ Exists(work, DropLevels(p, PrunedLevels))
         /\ NodeAt(work, DropLevels(p, PrunedLevels)) = NodeAt(Cleaned, p)
    /\ LeafPaths(work) = {DropLevels(p, PrunedLevels) : p \in LeafPaths(Cleaned)}

\* C20 on the trees without a DataFrame, where getPaths collects the keys of
\* every container.
C20_WithoutDataFrame ==
  ~HasDataFrame(last.before) => C20_CollapseKeepsPayloads

\* The keys of the composite encodings: of the grid, of the overlap of two
\* sets and of the overlap of three sets.
GridKeys == {"rows", "columns", "matrix"}
Overlap2Keys == {"01", "10", "11"}
Overlap3Keys == {"001", "010", "011", "100", "101", "110", "111"}

KeySet(branch) == {branch.items[i].key : i \in 1..Len(branch.items)}

\* The branch holds keys of the encodings, and all the keys of none.
PartialMatch(branch) ==
  /\ IsDict(branch)
  /\ KeySet(branch) \cap (GridKeys \cup Overlap2Keys \cup Overlap3Keys) # {}
  /\ ~(GridKeys \subseteq KeySet(branch))
  /\ ~(Overlap2Keys \subseteq KeySet(branch))
  /\ ~(Overlap3Keys \subseteq KeySet(branch))

\* Every branch of the tree before asDataFrame that satisfies P is bound to
\* the same key after it, with the same keys and payloads.
BranchesUntouched(P(_)) ==
  last.op = "asDataFrame" =>
    \A i \in 1..Len(last.before.items) :
      LET key == last.before.items[i].key
          branch == last.before.items[i].node
      IN P(branch) => HasKey(work, key) /\ Lookup(work, key) = branch

\* C18: asDataFrame rewrites a branch on a full match only: a branch that
\* holds only some of the keys of the grid, only some of the keys of the
\* overlap of two sets and only some of the keys of the overlap of three sets
\* has the same keys and payloads after the call.
C18_PartialMatchUntouched == BranchesUntouched(PartialMatch)

\* C18 on the branches that do not hold the three keys '010', '001' and
\* '011' together.
PartialMatchNotVenn3(branch) == PartialMatch(branch) /\ ~Intersects(branch, VENN3)
C18_UnlessThreeOfSeven == BranchesUntouched(PartialMatchNotVenn3)

\* The path q with its keys at the levels lo and hi exchanged.
Exchanged(q, lo, hi) ==
  [i \in 1..Len(q) |-> IF i = lo + 1 THEN q[hi + 1]
                       ELSE IF i = hi + 1 THEN q[lo + 1] ELSE q[i]]

\* The combinations (prefix, a, infix, b) present in the tree before a call
\* of the function swop with two different levels that returned: the paths
\* that end at the deeper level and lead to a container.
Combinations ==
  IF /\ last.op = "swop"
     /\ last.exc = ""
     /\ last.level1 # last.level2
  THEN {q \in AllPaths(last.before) :
          /\ Len(q) = Max(last.level1, last.level2) + 1
          /\ IsDict(NodeAt(last.before, q))}
  ELSE {}

\* The keys of the container at path q of t, none when nothing is there.
ChildKeys(t, q) ==
  IF Exists(t, q) /\ IsDict(NodeAt(t, q)) THEN KeysOf(NodeAt(t, q)) ELSE << >>

\* The keys of the container c whose child is not None, in the order of c.
KeptKeys(c) ==
  LET kept(k) == Lookup(c, k) # None IN SelectSeq(KeysOf(c), kept)

C21_KeptKeysInOrder ==
  \A q \in Combinations :
    LET newq == Exchanged(q, Min(last.level1, last.level2), Max(last.level1, last.level2))
    IN ChildKeys(work, newq) = KeptKeys(NodeAt(last.before, q))

\* The leaf containers of t: the containers at the depth of the last level
\* but one.
LeafContainers(t) ==
  {NodeAt(t, q) : q \in {x \in AllPaths(t) : Len(x) = Depth(t) - 1}}

\* A tree of at least two levels and of uniform depth, without an empty
\* container, in which every column of every leaf container maps to a
\* sequence and the sequences of one leaf container have the same length.
SequencesOfEqualLength(t) ==
  /\ Depth(t) >= 2
  /\ UniformDepth(t)
  /\ \A q \in AllPaths(t) : NodeAt(t, q) # EmptyDict
  /\ \A q \in LeafPaths(t) : IsList(NodeAt(t, q))
  /\ \A c \in LeafContainers(t) :
       \A i, j \in 1..Len(c.items) :
         Len(ListItems(c.items[i].node)) = Len(ListItems(c.items[j].node))

\* No sequence of the tree is empty.
NoEmptySequence(t) == \A q \in LeafPaths(t) : NodeAt(t, q) # Leaf("[]")

\* The sub-rows of t in the order of the table: for every key of level 0 the
\* paths through the levels between the first and the last that lead to a
\* leaf container; `first` marks the first sub-row of its main row.
SubRowsOf(t) ==
  LET rows == LevelKeys(t, 0)
      paths == Product([i \in 1..(Depth(t) - 2) |-> LevelKeys(t, i)])
  IN Flatten([x \in 1..Len(rows) |->
               LET there(path) == Exists(t, << rows[x] >> \o path)
                   present == SelectSeq(paths, there)
               IN [j \in 1..Len(present) |->
                    [row |-> rows[x], container |-> NodeAt(t, << rows[x] >> \o present[j]),
                     first |-> j = 1]]])

\* The stacked rows of a sub-row whose sequences have the length n: row k
\* holds the display string of the k-th element of each column, and the first
\* row the row header of the sub-row, which is blank but for the first sub-row
\* of a main row.
StackedRows(t, sub) ==
  LET cols == LevelKeys(t, Depth(t) - 1)
      n == Len(ListItems(sub.container.items[1].node))
  IN [k \in 1..n |->
       [header |-> IF k = 1 /\ sub.first THEN sub.row ELSE "",
        cells |-> [j \in 1..Len(cols) |->
                    IF HasKey(sub.container, cols[j])
                    THEN quote_rst(ListItems(Lookup(sub.container, cols[j]))[k])
                    ELSE ""]]]

\* The last n cells of a row.
LastCells(row, n) == SubSeq(row, Len(row) - n + 1, Len(row))

\* What C22 says of tree2table on the trees that satisfy P: the table is made
\* of the stacked rows of the sub-rows, one after the other.
ExpandsIntoStackedRows(P(_)) ==
  (/\ last.op = "tree2table"
   /\ ~last.transpose
   /\ last.head = 0
   /\ SequencesOfEqualLength(last.before)
   /\ P(last.before)) =>
    LET t == last.before
        subs == SubRowsOf(t)
        expected == Flatten([i \in 1..Len(subs) |-> StackedRows(t, subs[i])])
        ncols == Len(LevelKeys(t, Depth(t) - 1))
    IN /\ last.exc = ""
       /\ Len(last.matrix) = Len(expected)
       /\ last.row_headers = [i \in 1..Len(expected) |-> expected[i].header]
       /\ \A i \in 1..Len(expected) :
            /\ i <= Len(last.matrix)
            /\ Len(last.matrix[i]) >= ncols
            /\ LastCells(last.matrix[i], ncols) = expected[i].cells

\* C22, as claimed: when every last-level column of a sub-row's leaf container
\* maps to a sequence and the sequences have the same length n, the sub-row
\* is expanded into exactly n stacked rows, row k holding the display string
\* of the k-th element of each column, with the row header on the first of
\* them and blank row headers on the others.
C22_ExpandsIntoNRows == ExpandsIntoStackedRows(AnyTree)

\* C22, amended: the same when the sequences are not empty (n >= 1).
C22_ExpandsNonEmpty == ExpandsIntoStackedRows(NoEmptySequence)

\* C22, witness: a sub-row with two columns of two elements each has become
\* two rows, the row header on the first.
C22_Witness ==
  /\ last.op = "tree2table"
  /\ ~last.transpose
  /\ last.head = 0
  /\ last.exc = ""
  /\ SequencesOfEqualLength(last.before)
  /\ last.col_headers = << "b", "a" >>
  /\ last.row_headers = << "a", "" >>
  /\ last.matrix = << << "7", "7" >>, << "8", "8" >> >>

\* The table that the last call returned has a row header for every row and
\* a cell in every row for every column header.
Rectangular ==
  /\ Len(last.row_headers) = Len(last.matrix)
  /\ \A i \in 1..Len(last.matrix) : Len(last.matrix[i]) = Len(last.col_headers)

\* C23: every table returned by tree2table is rectangular and consistent
\* with its headers: as many row headers as rows and as many cells in every
\* row as column headers, with and without transpose, with head, with skipped
\* sub-rows and with multi-level rows.
C23_TableRectangular ==
  (last.op = "tree2table" /\ last.exc = "") => Rectangular

\* C23, witness: a table with multi-level rows, asked for with head and
\* transposed, of one row and three columns.
C23_Witness ==
  /\ last.op = "tree2table"
  /\ last.exc = ""
  /\ last.transpose
  /\ last.head = 2
  /\ last.row_headers = << "a" >>
  /\ last.col_headers = << "a", "", "b" >>
  /\ last.matrix = << << "7", "8", "7" >> >>
  /\ Rectangular

====
